---- MODULE Spec2Model ----
(***************************************************************************)
(* A model of builder/renderer.py: render_template_dir walks a template    *)
(* directory in sorted order and renders or copies every file into a       *)
(* destination directory.                                                   *)
(*                                                                          *)
(* File contents are sequences of abstract bytes.  The alphabet is          *)
(*   "x" "d" "o"   ordinary ASCII letters                                   *)
(*   "k" "r" "m"   ASCII letters that are also used as variable names       *)
(*   "{" "}" "#" "%" " "  the characters of the Jinja2 delimiters           *)
(*   "CR" "LF" "NUL"      control characters (all valid UTF-8)              *)
(*   "FF"          the byte 0xFF, which no UTF-8 text contains              *)
(* Every byte but "FF" is one ASCII character, so a decoded text is a       *)
(* sequence over the same alphabet without "FF".                            *)
(*                                                                          *)
(* Relative paths are sequences of components (pathlib parts), a component  *)
(* a sequence of character codes, so that the string order the sort uses    *)
(* can be computed.  The host is POSIX (os.sep = "/").                      *)
(***************************************************************************)
EXTENDS Integers, Sequences, FiniteSets, TLC

\* ------------------------------------------------------------------ bounds

\* Most files a template holds.
MaxFiles == 3

\* Bytes one write call transfers to the destination file.
ChunkLen == 5

\* ------------------------------------------------------- paths and sorting

\* os.sep of the host, and the "/" the sort key replaces it with.
os_sep == 47

ForwardSlash == 47

\* The relative paths a template may hold: "a-b", "a/b", "a/c", "b".
TemplatePaths ==
    { << <<97, 45, 98>> >>,
      << <<97>>, <<98>> >>,
      << <<97>>, <<99>> >>,
      << <<98>> >> }

\* The path of the symbolic link a template may hold, "l", and the directory
\* "a" it may point to.
LinkPath == << <<108>> >>

LinkedDir == << <<97>> >>

\* The relative paths the run may write in the destination.
DstPaths == TemplatePaths \cup {LinkPath}

Min(a, b) == IF a < b THEN a ELSE b

\* str(rel): the components joined by os.sep.
RECURSIVE PathStr(_)
PathStr(parts) ==
    IF Len(parts) = 0 THEN <<>>
    ELSE IF Len(parts) = 1 THEN parts[1]
    ELSE parts[1] \o <<os_sep>> \o PathStr(Tail(parts))

\* s.replace(old, new) for single characters.
Replace(s, old, new) == [i \in 1..Len(s) |-> IF s[i] = old THEN new ELSE s[i]]

\* The sort key of line 57: str(p.relative_to(template_dir)).replace(os.sep, "/").
RelKey(parts) == Replace(PathStr(parts), os_sep, ForwardSlash)

\* Python's < on str: code point by code point, a proper prefix is smaller.
StrLess(s, t) ==
    \E i \in 1..(Min(Len(s), Len(t)) + 1) :
        /\ \A j \in 1..(i - 1) : s[j] = t[j]
        /\ \/ i > Len(s) /\ i <= Len(t)
           \/ i <= Len(s) /\ i <= Len(t) /\ s[i] < t[i]

\* The order list.sort(key=...) of line 57 compares by.
KeyLess(p, q) == StrLess(RelKey(p), RelKey(q))

\* Insert p into the ascending sequence s, after every element not greater
\* than it (list.sort is stable).
RECURSIVE Insert(_, _)
Insert(p, s) ==
    IF Len(s) = 0 THEN <<p>>
    ELSE IF KeyLess(p, s[1]) THEN <<p>> \o s
    ELSE <<s[1]>> \o Insert(p, Tail(s))

RECURSIVE SortFrom(_, _)
SortFrom(s, acc) ==
    IF Len(s) = 0 THEN acc ELSE SortFrom(Tail(s), Insert(s[1], acc))

\* files.sort(key=...): mutated form that leaves os.walk's order.
SortFilesUnsorted(s) == s

\* files.sort(key=...) of line 57.
SortFiles(s) == SortFrom(s, <<>>)

Perms(S) ==
    {s \in [1..Cardinality(S) -> S] :
        \A i, j \in 1..Cardinality(S) : i # j => s[i] # s[j]}

DirOf(p) == SubSeq(p, 1, Len(p) - 1)

\* The orders in which os.walk (top-down, lines 53-56) can hand out the files
\* of a tree at most two levels deep: the root's own files first, in the
\* order the file system lists them, then each sub-directory's files
\* together, the sub-directories and their files in file-system order.
WalkOrders(S) ==
    {s \in Perms(S) :
        /\ \A i, j \in 1..Len(s) :
              (i < j /\ Len(s[j]) = 1) => Len(s[i]) = 1
        /\ \A i, j, l \in 1..Len(s) :
              (i < j /\ j < l /\ DirOf(s[i]) = DirOf(s[l]))
                  => DirOf(s[j]) = DirOf(s[i])}

\* Every directory dst_path.parent.mkdir(parents=True) makes sure exists.
Prefixes(d) == {SubSeq(d, 1, n) : n \in 0..Len(d)}

\* ------------------------------------------------------ text and encoding

\* path.read_text(encoding="utf-8") raises UnicodeDecodeError (line 41) exactly
\* when the bytes are not valid UTF-8: here, when they hold the byte 0xFF.
Utf8Decodable(bytes) == \A i \in 1..Len(bytes) : bytes[i] # "FF"

\* The text read_text returns for decodable bytes (lines 41, 99): the file is
\* opened in text mode with newline=None, so "\r\n" and a lone "\r" are both
\* read as "\n".
RECURSIVE ReadText(_)
ReadText(bytes) ==
    IF Len(bytes) = 0 THEN <<>>
    ELSE IF bytes[1] = "CR" /\ Len(bytes) >= 2 /\ bytes[2] = "LF"
        THEN <<"LF">> \o ReadText(SubSeq(bytes, 3, Len(bytes)))
    ELSE IF bytes[1] = "CR"
        THEN <<"LF">> \o ReadText(Tail(bytes))
    ELSE <<bytes[1]>> \o ReadText(Tail(bytes))

\* _is_binary_file (lines 36-44), for a file that can be opened.
IsBinaryFile(bytes) == ~Utf8Decodable(bytes)

\* The test of line 100: "{{" in text or "{%" in text or "{#" in text.
HasMarkers(text) ==
    \E i \in 1..(Len(text) - 1) :
        text[i] = "{" /\ text[i + 1] \in {"{", "%", "#"}

\* What a text file object writes for the characters of `out`: with
\* newline=None every "\n" becomes os.linesep; with newline="\n" (or "") no
\* character is translated; any other newline replaces each "\n".
RECURSIVE TranslateNewlines(_, _)
TranslateNewlines(out, eol) ==
    IF Len(out) = 0 THEN <<>>
    ELSE (IF out[1] = "LF" THEN eol ELSE <<out[1]>>)
             \o TranslateNewlines(Tail(out), eol)

\* write_text(out, newline=None) on a host whose os.linesep is "\r\n".
WriteTextBytesPlatform(out) == TranslateNewlines(out, <<"CR", "LF">>)

\* The bytes of dst_path.write_text(out, encoding="utf-8", newline="\n")
\* (line 107): each "\n" is written as "\n", every other character as it is.
WriteTextBytes(out) == TranslateNewlines(out, <<"LF">>)

\* ------------------------------------------------------------ substitution

\* The context of the run: variable name -> value.  "k" has a plain value,
\* the value of "r" holds a carriage return and a line feed; "m" and every
\* other name are absent.
Context == [k |-> <<"d">>, r |-> <<"d", "CR", "LF", "d">>]

\* The characters that form a one-letter name.
NameChars == {"k", "r", "m", "x", "d", "o"}

\* Environment(undefined=Undefined): the library's lenient default.
EnvLenient ==
    [autoescape |-> FALSE, undefined |-> "Undefined", keep_trailing_newline |-> TRUE]

\* The Environment of lines 79-83.
Env ==
    [autoescape |-> FALSE, undefined |-> "StrictUndefined", keep_trailing_newline |-> TRUE]

\* The least j >= i with text[j] = c1 and text[j+1] = c2, or 0.
FindPair(text, i, c1, c2) ==
    LET J == {j \in i..(Len(text) - 1) : text[j] = c1 /\ text[j + 1] = c2}
    IN  IF J = {} THEN 0 ELSE CHOOSE j \in J : \A l \in J : j <= l

\* An expression with its blanks removed.
RECURSIVE Strip(_)
Strip(e) ==
    IF Len(e) = 0 THEN <<>>
    ELSE IF e[1] \in {" ", "LF"} THEN Strip(Tail(e))
    ELSE <<e[1]>> \o Strip(Tail(e))

SyntaxError == [ok |-> FALSE, error |-> "TemplateSyntaxError", name |-> "", nodes |-> <<>>]

\* env.from_string(text) (line 102) on the fragment of the template language
\* this alphabet can spell: data, "{{ name }}" with a one-letter name, and
\* "{# ... #}".  A "{%" starts a statement, and no letter of the alphabet is
\* a statement name, so it is a syntax error, as are an unclosed "{{" or "{#"
\* and an expression that is not one name.  The lexer normalizes the line
\* endings of data to "\n".
RECURSIVE ParseFrom(_, _, _)
ParseFrom(text, i, nodes) ==
    IF i > Len(text) THEN [ok |-> TRUE, error |-> "", name |-> "", nodes |-> nodes]
    ELSE IF text[i] = "{" /\ i < Len(text) /\ text[i + 1] = "{" THEN
        LET j == FindPair(text, i + 2, "}", "}")
            e == IF j = 0 THEN <<>> ELSE Strip(SubSeq(text, i + 2, j - 1))
        IN  IF j = 0 \/ Len(e) # 1 \/ (Len(e) = 1 /\ e[1] \notin NameChars)
                THEN SyntaxError
            ELSE ParseFrom(text, j + 2, Append(nodes, [t |-> "var", v |-> e[1]]))
    ELSE IF text[i] = "{" /\ i < Len(text) /\ text[i + 1] = "#" THEN
        LET j == FindPair(text, i + 2, "#", "}")
        IN  IF j = 0 THEN SyntaxError ELSE ParseFrom(text, j + 2, nodes)
    ELSE IF text[i] = "{" /\ i < Len(text) /\ text[i + 1] = "%" THEN
        SyntaxError
    ELSE ParseFrom(text, i + 1,
             Append(nodes, [t |-> "data", v |-> IF text[i] = "CR" THEN "LF" ELSE text[i]]))

\* Without keep_trailing_newline the lexer drops one trailing newline of the
\* source.
DropTrailingNewline(text) ==
    IF Len(text) > 0 /\ text[Len(text)] = "LF"
        THEN SubSeq(text, 1, Len(text) - 1) ELSE text

FromString(env, text) ==
    ParseFrom(IF env.keep_trailing_newline THEN text ELSE DropTrailingNewline(text),
              1, <<>>)

\* template.render(**context) (line 103): data is copied, a variable is
\* replaced by str(value).  An absent variable raises UndefinedError under
\* StrictUndefined and prints as the empty string under Undefined.
RECURSIVE RenderNodes(_, _, _)
RenderNodes(env, nodes, ctx) ==
    IF Len(nodes) = 0 THEN [ok |-> TRUE, error |-> "", name |-> "", out |-> <<>>]
    ELSE
        LET n == nodes[1]
            rest == RenderNodes(env, Tail(nodes), ctx)
            here == IF n.t = "data" THEN <<n.v>>
                    ELSE IF n.v \in DOMAIN ctx THEN ctx[n.v]
                    ELSE <<>>
        IN  IF n.t = "var" /\ n.v \notin DOMAIN ctx /\ env.undefined = "StrictUndefined"
                THEN [ok |-> FALSE, error |-> "UndefinedError", name |-> n.v, out |-> <<>>]
            ELSE IF ~rest.ok THEN rest
            ELSE [ok |-> TRUE, error |-> "", name |-> "", out |-> here \o rest.out]

\* Lines 102-103 with the lenient environment.
RenderTextLenient(text, ctx) ==
    LET tpl == FromString(EnvLenient, text)
    IN  IF ~tpl.ok THEN [ok |-> FALSE, error |-> tpl.error, name |-> "", out |-> <<>>]
        ELSE RenderNodes(EnvLenient, tpl.nodes, ctx)

\* Lines 102-103: compile the whole text, then render it.
RenderText(text, ctx) ==
    LET tpl == FromString(Env, text)
    IN  IF ~tpl.ok THEN [ok |-> FALSE, error |-> tpl.error, name |-> "", out |-> <<>>]
        ELSE RenderNodes(Env, tpl.nodes, ctx)

\* ------------------------------------------------------ the template tree

\* File bodies.
BinaryBody == <<"FF", "{", "{", "k", "}", "}", "CR", "LF", "NUL">>

EmptyBody == <<>>

PlainCrlfBody == <<"{", "x", "CR", "LF", "NUL", "}", "}", "CR">>

VarCrlfBody == <<"x", "CR", "LF", "{", "#", "m", "#", "}", "{", "{", " ", "k", "}", "}", "CR">>

ValueCrBody == <<"{", "{", "r", "}", "}", "LF">>

MissingVarBody == <<"{", "{", "k", "}", "}", "x", "{", "{", "m", "}", "}">>

\* The files a template may hold: the bytes, the permission bits (0o755 =
\* 493, 0o644 = 420, 0o600 = 384, 0o640 = 416) and whether the file can be
\* opened for reading.
FileKinds ==
    { [bytes |-> BinaryBody, mode |-> 493, readable |-> TRUE],
      [bytes |-> EmptyBody, mode |-> 420, readable |-> TRUE],
      [bytes |-> PlainCrlfBody, mode |-> 384, readable |-> TRUE],
      [bytes |-> VarCrlfBody, mode |-> 493, readable |-> TRUE],
      [bytes |-> ValueCrBody, mode |-> 416, readable |-> TRUE],
      [bytes |-> MissingVarBody, mode |-> 420, readable |-> TRUE],
      [bytes |-> PlainCrlfBody, mode |-> 128, readable |-> FALSE] }

\* The template trees: at most MaxFiles files at paths of TemplatePaths.
Templates ==
    UNION {[S -> FileKinds] :
              S \in {T \in SUBSET TemplatePaths : Cardinality(T) <= MaxFiles}}

\* ------------------------------------------------------- the destination

NoFile == [exists |-> FALSE, bytes |-> <<>>, mode |-> 0]

OldFile == [exists |-> TRUE, bytes |-> <<"o", "CR", "LF">>, mode |-> 432]

\* Where the run happens: the process's umask (0o022 = 18, 0o077 = 63) and
\* the destination before the run: "absent" (no directory yet), "empty" (an
\* empty directory) or "populated" (a directory that holds an older file,
\* of mode 0o660, at every path, sub-directory included).
Environments ==
    { [umask |-> 18, dst |-> "absent"],
      [umask |-> 63, dst |-> "empty"],
      [umask |-> 18, dst |-> "populated"] }

InitialFiles(kind) ==
    [p \in DstPaths |-> IF kind = "populated" THEN OldFile ELSE NoFile]

InitialDirs(kind) ==
    IF kind = "absent" THEN {}
    ELSE IF kind = "empty" THEN {<<>>}
    ELSE UNION {Prefixes(DirOf(p)) : p \in DstPaths}

\* The mode open() gives a file it creates: 0o666 & ~umask, for the umasks
\* 0o022 (18) and 0o077 (63).
CreateMode(mask) == IF mask = 18 THEN 420 ELSE 384

\* ------------------------------------------------------- one file's effect

\* shutil.copy2 transferring the bytes through text-mode file objects.
CopyFileBytesAsText(bytes) ==
    IF Utf8Decodable(bytes) THEN WriteTextBytes(ReadText(bytes)) ELSE bytes

\* The bytes shutil.copy2 (lines 95, 112) transfers: the source's, read and
\* written in binary mode.
CopyFileBytes(bytes) == bytes

\* Lines 94-113 up to the first write, for the template file f: what is to be
\* written and with which outcome, or the exception raised.
FileEffect(f) ==
    IF ~f.readable THEN
        [kind |-> "raise", type |-> "PermissionError", cause |-> "EACCES",
         name |-> "", payload |-> <<>>]
    ELSE IF IsBinaryFile(f.bytes) THEN
        [kind |-> "Copied", type |-> "", cause |-> "", name |-> "",
         payload |-> CopyFileBytes(f.bytes)]
    ELSE
        LET text == ReadText(f.bytes)
            r == RenderText(text, Context)
        IN  IF ~HasMarkers(text) THEN
                [kind |-> "Copied", type |-> "", cause |-> "", name |-> "",
                 payload |-> CopyFileBytes(f.bytes)]
            ELSE IF ~r.ok THEN
                [kind |-> "raise", type |-> "RenderError", cause |-> r.error,
                 name |-> r.name, payload |-> <<>>]
            ELSE
                [kind |-> "Rendered", type |-> "", cause |-> "", name |-> "",
                 payload |-> WriteTextBytes(r.out)]

\* -------------------------------------------------------- symbolic links

NoLinks == <<>>

\* The symbolic links a template t may hold besides its files, as link path
\* -> link: none, or the link "l" that is dangling ("broken"), points to one
\* of the template's files ("file"), or points to the directory "a" when the
\* template has files in it ("dir").
LinkChoices(t) ==
    {NoLinks}
        \cup {LinkPath :> [kind |-> "broken", target |-> <<>>]}
        \cup {LinkPath :> [kind |-> "file", target |-> p] : p \in DOMAIN t}
        \cup (IF \E p \in DOMAIN t : DirOf(p) = LinkedDir
                  THEN {LinkPath :> [kind |-> "dir", target |-> LinkedDir]}
                  ELSE {})

\* The paths os.walk(template_dir) hands out as file names (lines 53-56):
\* every entry that is not a directory, a link to a file and a dangling link
\* included.  A link to a directory is a directory name, and os.walk, called
\* without followlinks, does not descend into it.
Listed(t, ls) == DOMAIN t \cup {l \in DOMAIN ls : ls[l].kind # "dir"}

\* What reading the source path p does (lines 94-105): a link is followed to
\* its target, and opening a dangling link raises FileNotFoundError.
SourceEffect(t, ls, p) ==
    IF p \in DOMAIN t THEN FileEffect(t[p])
    ELSE IF ls[p].kind = "file" THEN FileEffect(t[ls[p].target])
    ELSE [kind |-> "raise", type |-> "FileNotFoundError", cause |-> "ENOENT",
          name |-> "", payload |-> <<>>]

\* The permission bits shutil.copystat reads at the source path p: those of
\* the file, or of the file a link points to.
SourceMode(t, ls, p) ==
    IF p \in DOMAIN t THEN t[p].mode ELSE t[ls[p].target].mode

\* ------------------------------------------------------------- the state

VARIABLES
    tplKind,    \* what template_dir names: "dir", "missing" or "file"
    tpl,        \* the template tree: relative path -> file
    links,      \* the template's symbolic links: relative path -> link
    umask,      \* the process's umask
    dstKind,    \* the destination before the run (never changes)
    dst,        \* the destination's files: relative path -> file
    dstDirs,    \* the destination's directories (<<>> is the root)
    pc,         \* where render_template_dir stands
    files,      \* the list _iter_template_files returned
    idx,        \* the position of src_path in files
    rendered,   \* the counter of line 85
    copied,     \* the counter of line 86
    outcome,    \* how the current file is being written: "Rendered" or "Copied"
    payload,    \* the bytes the current file's write transfers
    result,     \* the RenderResult returned, or NoResult
    err,        \* the exception that left render_template_dir, or NoError
    opened,     \* history: the destination paths opened for writing, in order
    outcomes    \* history: relative path -> outcome, for the files completed

vars ==
    <<tplKind, tpl, links, umask, dstKind, dst, dstDirs, pc, files, idx,
      rendered, copied, outcome, payload, result, err, opened, outcomes>>

NoRel == <<>>

NoResult == [returned |-> FALSE, rendered_files |-> 0, copied_files |-> 0]

NoError == [type |-> "none", rel |-> NoRel, cause |-> "", name |-> ""]

\* An exception: its class; the relative path its message states (NoRel when
\* the message states none: an OSError carries the absolute path the failed
\* system call was given); its cause, which for the RenderError of line 105
\* is the class of the exception chained to it by "from e" and for the
\* others the failed step; and the variable name that a chained
\* UndefinedError states.
Exc(type, rel, cause, name) ==
    [type |-> type, rel |-> rel, cause |-> cause, name |-> name]

\* The state at the call, but for the template's links.
InitRun ==
    /\ tplKind \in {"dir", "missing", "file"}
    /\ tpl \in (IF tplKind = "dir" THEN Templates ELSE {<<>>})
    /\ \E e \in Environments : umask = e.umask /\ dstKind = e.dst
    /\ dst = InitialFiles(dstKind)
    /\ dstDirs = InitialDirs(dstKind)
    /\ pc = "start"
    /\ files = <<>>
    /\ idx = 0
    /\ rendered = 0
    /\ copied = 0
    /\ outcome = ""
    /\ payload = <<>>
    /\ result = NoResult
    /\ err = NoError
    /\ opened = <<>>
    /\ outcomes = <<>>

\* A call on a template without symbolic links.
Init ==
    /\ InitRun
    /\ links = NoLinks

\* A call on a template that may hold a symbolic link.
InitLinks ==
    /\ InitRun
    /\ links \in LinkChoices(tpl)

\* The position the for loop of line 88 moves to after the file at idx.
Advance ==
    /\ idx' = idx + 1
    /\ pc' = IF idx < Len(files) THEN "mkdir" ELSE "return"

\* An exception handled by going on with the next file.
RaiseAndContinue(e) ==
    /\ err' = e
    /\ Advance

\* An exception leaves render_template_dir: the loop ends where it stands and
\* nothing is returned.
Raise(e) ==
    /\ err' = e
    /\ pc' = "failed"
    /\ idx' = idx

\* render_template_dir without the test of line 76.
CheckRootSkipped ==
    /\ pc = "start"
    /\ pc' = "enumerate"
    /\ UNCHANGED <<tplKind, tpl, links, umask, dstKind, dst, dstDirs, files, idx,
                   rendered, copied, outcome, payload, result, err, opened,
                   outcomes>>

\* Lines 73-77: the template root must exist and be a directory.
CheckRoot ==
    /\ pc = "start"
    /\ IF tplKind # "dir"
           THEN Raise(Exc("RenderError", NoRel, "InvalidTemplateRoot", ""))
           ELSE pc' = "enumerate" /\ UNCHANGED <<idx, err>>
    /\ UNCHANGED <<tplKind, tpl, links, umask, dstKind, dst, dstDirs, files, rendered,
                   copied, outcome, payload, result, opened, outcomes>>

\* Line 88 and lines 47-58: os.walk hands the files out in one of its orders,
\* the list is sorted, and the loop starts at its first file.
Enumerate ==
    /\ pc = "enumerate"
    /\ \E order \in WalkOrders(Listed(tpl, links)) :
          /\ files' = SortFiles(order)
          /\ idx' = 1
          /\ pc' = IF Len(order) > 0 THEN "mkdir" ELSE "return"
    /\ UNCHANGED <<tplKind, tpl, links, umask, dstKind, dst, dstDirs, rendered, copied,
                   outcome, payload, result, err, opened, outcomes>>

\* Lines 89-91: dst_path.parent.mkdir(parents=True, exist_ok=True) creates
\* the missing directories from the root down; the file system may refuse
\* one of them (OSError), and those made before it stay.
Mkdir ==
    /\ pc = "mkdir"
    /\ LET d == DirOf(files[idx])
       IN  \E n \in 0..(Len(d) + 1) :
              IF n <= Len(d)
                  THEN /\ Raise(Exc("OSError", NoRel, "mkdir", ""))
                       /\ dstDirs' = dstDirs \cup {SubSeq(d, 1, l) : l \in 0..(n - 1)}
                  ELSE /\ dstDirs' = dstDirs \cup Prefixes(d)
                       /\ pc' = "read"
                       /\ UNCHANGED <<idx, err>>
    /\ UNCHANGED <<tplKind, tpl, links, umask, dstKind, dst, files, rendered, copied,
                   outcome, payload, result, opened, outcomes>>

\* Lines 94-105: classify the source file, read it and, when it holds a
\* marker, render it.  Only a failure of the rendering is wrapped in a
\* RenderError (line 105); an OSError of read_text leaves as it is.
ReadSource ==
    /\ pc = "read"
    /\ LET rel == files[idx]
           eff == SourceEffect(tpl, links, rel)
       IN  IF eff.kind = "raise"
               THEN /\ Raise(Exc(eff.type,
                                 IF eff.type = "RenderError" THEN rel ELSE NoRel,
                                 eff.cause, eff.name))
                    /\ UNCHANGED <<outcome, payload>>
               ELSE /\ outcome' = eff.kind
                    /\ payload' = eff.payload
                    /\ pc' = "open"
                    /\ UNCHANGED <<idx, err>>
    /\ UNCHANGED <<tplKind, tpl, links, umask, dstKind, dst, dstDirs, files, rendered,
                   copied, result, opened, outcomes>>

\* shutil.copyfile (lines 95, 112) and write_text (line 107) open the
\* destination path itself for writing: the file is created with the default
\* mode, or an older file is truncated and keeps its mode.  The file system
\* may refuse (OSError).
OpenDst ==
    /\ pc = "open"
    /\ LET rel == files[idx]
       IN  \E refused \in BOOLEAN :
              IF refused
                  THEN /\ Raise(Exc("OSError", NoRel, "open", ""))
                       /\ UNCHANGED <<dst, opened>>
                  ELSE /\ dst' = [dst EXCEPT ![rel] =
                                     [exists |-> TRUE, bytes |-> <<>>,
                                      mode |-> IF dst[rel].exists THEN dst[rel].mode
                                               ELSE CreateMode(umask)]]
                       /\ opened' = Append(opened, rel)
                       /\ pc' = IF Len(payload) = 0 THEN "copystat" ELSE "write"
                       /\ UNCHANGED <<idx, err>>
    /\ UNCHANGED <<tplKind, tpl, links, umask, dstKind, dstDirs, files, rendered, copied,
                   outcome, payload, result, outcomes>>

\* One write call on the open destination file: the next ChunkLen bytes are
\* appended, or the call fails (OSError, the disk is full) and what was
\* written stays.
WriteChunk ==
    /\ pc = "write"
    /\ LET rel == files[idx]
           n == Len(dst[rel].bytes)
           m == Min(n + ChunkLen, Len(payload))
       IN  \E refused \in BOOLEAN :
              IF refused
                  THEN /\ Raise(Exc("OSError", NoRel, "write", ""))
                       /\ UNCHANGED dst
                  ELSE /\ dst' = [dst EXCEPT ![rel].bytes = @ \o SubSeq(payload, n + 1, m)]
                       /\ pc' = IF m = Len(payload) THEN "copystat" ELSE "write"
                       /\ UNCHANGED <<idx, err>>
    /\ UNCHANGED <<tplKind, tpl, links, umask, dstKind, dstDirs, files, rendered, copied,
                   outcome, payload, result, opened, outcomes>>

\* The mode left when copystat is called for copied files only.
StatModeCopiedOnly(o, srcMode, curMode) ==
    IF o = "Copied" THEN srcMode ELSE curMode

\* The mode of the destination file after shutil.copystat (line 108, and
\* inside copy2 at lines 95, 112): the source's permission bits, whatever
\* the outcome and whatever the mode the file had.
StatMode(o, srcMode, curMode) == srcMode

\* rendered += 1 (line 109).
CountRendered(o, n) == IF o = "Rendered" THEN n + 1 ELSE n

\* A copy branch that does not count.
CountCopiedNever(o, n) == n

\* copied += 1 (lines 96, 113).
CountCopied(o, n) == IF o = "Copied" THEN n + 1 ELSE n

\* The end of one file: copystat gives the destination file the source's
\* permission bits, the counter of the outcome is incremented and the loop
\* moves on.
CopyStat ==
    /\ pc = "copystat"
    /\ LET rel == files[idx]
       IN  /\ dst' = [dst EXCEPT ![rel].mode =
                         StatMode(outcome, SourceMode(tpl, links, rel), dst[rel].mode)]
           /\ rendered' = CountRendered(outcome, rendered)
           /\ copied' = CountCopied(outcome, copied)
           /\ outcomes' = outcomes @@ (rel :> outcome)
    /\ Advance
    /\ UNCHANGED <<tplKind, tpl, links, umask, dstKind, dstDirs, files, outcome, payload,
                   result, err, opened>>

\* Line 115.
Return ==
    /\ pc = "return"
    /\ result' = [returned |-> TRUE, rendered_files |-> rendered,
                  copied_files |-> copied]
    /\ pc' = "done"
    /\ UNCHANGED <<tplKind, tpl, links, umask, dstKind, dst, dstDirs, files, idx, rendered,
                   copied, outcome, payload, err, opened, outcomes>>

Next ==
    \/ CheckRoot
    \/ Enumerate
    \/ Mkdir
    \/ ReadSource
    \/ OpenDst
    \/ WriteChunk
    \/ CopyStat
    \/ Return

Spec == Init /\ [][Next]_vars

SpecLinks == InitLinks /\ [][Next]_vars

\* ------------------------------------------------------------ properties

\* FileEffect, tabulated over the files a template may hold.
EffectOf == [f \in FileKinds |-> FileEffect(f)]

\* The destination file the run leaves at p once p is fully materialized.
FinalFile(p) ==
    [exists |-> TRUE, bytes |-> EffectOf[tpl[p]].payload, mode |-> tpl[p].mode]

Untouched(p) == dst[p] = InitialFiles(dstKind)[p]

WasOpened(p) == \E i \in 1..Len(opened) : opened[i] = p

\* KeyLess, tabulated over the paths a template may hold.
SortsAfter == [p \in DstPaths |-> {q \in DstPaths : KeyLess(p, q)}]

Before(p, q) == q \in SortsAfter[p]

\* C1: files are processed one at a time in ascending canonical
\* relative-path order, and the first exception aborts the run: once an
\* exception has been raised the run has stopped and returned no
\* RenderResult, no file that sorts after the failing file F was ever opened
\* for writing or changed, and every file that sorts before F is in place
\* with its final bytes and mode.
C1_AbortOnFirstError ==
    /\ \A i, j \in 1..Len(opened) : i < j => Before(opened[i], opened[j])
    /\ \A p \in DOMAIN tpl :
          (WasOpened(p) /\ p # opened[Len(opened)]) => dst[p] = FinalFile(p)
    /\ err # NoError =>
          /\ pc = "failed"
          /\ result = NoResult
          /\ idx >= 1 =>
                \A p \in DOMAIN tpl :
                    /\ Before(files[idx], p) => ~WasOpened(p) /\ Untouched(p)
                    /\ Before(p, files[idx]) => dst[p] = FinalFile(p)

\* A run of three files that failed at the second: the first is in place,
\* the third was never written.
C1_Witness ==
    /\ pc = "failed"
    /\ Len(files) = 3
    /\ idx = 2
    /\ err.type = "RenderError"
    /\ dst[files[1]] = FinalFile(files[1])
    /\ dstKind = "empty"
    /\ ~dst[files[3]].exists

\* The names a file references that the context does not hold: the file is
\* readable UTF-8 text with a marker, compiles, and holds "{{ name }}".
MissingRefs(f) ==
    IF ~f.readable \/ ~Utf8Decodable(f.bytes) THEN {}
    ELSE LET t == FromString(Env, ReadText(f.bytes))
         IN  IF ~t.ok THEN {}
             ELSE {t.nodes[i].v : i \in {j \in 1..Len(t.nodes) :
                       t.nodes[j].t = "var" /\ t.nodes[j].v \notin DOMAIN Context}}

MissingRefsOf == [f \in FileKinds |-> MissingRefs(f)]

\* Whether the loop has gone past the read-and-render step of the file p.
PastRead(p) ==
    \E i \in 1..Len(files) :
        /\ files[i] = p
        /\ \/ i < idx
           \/ i = idx /\ pc \in {"open", "write", "copystat"}
           \/ i = idx /\ pc = "failed" /\ err.cause # "mkdir"

\* C2: strict substitution: a file that references an absent variable is
\* never rendered; as soon as the run has read it the run has failed with a
\* RenderError for that file whose cause names a missing key, and the file's
\* destination path was not opened and holds what it held before.
C2_StrictSubstitution ==
    \A p \in DOMAIN tpl :
        (MissingRefsOf[tpl[p]] # {} /\ PastRead(p)) =>
            /\ pc = "failed"
            /\ err.type = "RenderError"
            /\ err.rel = p
            /\ err.cause = "UndefinedError"
            /\ err.name \in MissingRefsOf[tpl[p]]
            /\ p \notin DOMAIN outcomes
            /\ ~WasOpened(p)
            /\ Untouched(p)

\* The run failed on "{{k}}x{{m}}" over an older destination file, which is
\* still there.
C2_Witness ==
    /\ pc = "failed"
    /\ idx \in 1..Len(files)
    /\ tpl[files[idx]].bytes = MissingVarBody
    /\ err.name = "m"
    /\ dstKind = "populated"
    /\ dst[files[idx]] = OldFile

\* A file that passes through: not UTF-8, or without a marker in its bytes.
PassesThrough(f) == ~Utf8Decodable(f.bytes) \/ ~HasMarkers(f.bytes)

\* C3: after a successful run every file that is not UTF-8 or holds no
\* marker has the outcome Copied and its destination bytes are the source's
\* bytes, line endings included.
C3_PassThroughFidelity ==
    pc = "done" =>
        \A p \in DOMAIN tpl :
            PassesThrough(tpl[p]) =>
                /\ dst[p].exists
                /\ dst[p].bytes = tpl[p].bytes
                /\ outcomes[p] = "Copied"

\* A successful run that copied a binary file with marker-like bytes, a
\* marker-free CRLF text and an empty file.
C3_Witness ==
    /\ pc = "done"
    /\ \E p, q, e \in DOMAIN tpl :
          /\ tpl[p].bytes = BinaryBody
          /\ tpl[q].bytes = PlainCrlfBody
          /\ tpl[e].bytes = EmptyBody
          /\ dst[p].bytes = BinaryBody
          /\ dst[q].bytes = PlainCrlfBody
          /\ dst[e].exists

CountCR(bytes) == Cardinality({i \in 1..Len(bytes) : bytes[i] = "CR"})

RECURSIVE SumCR(_, _)
SumCR(nodes, ctx) ==
    IF Len(nodes) = 0 THEN 0
    ELSE (IF nodes[1].t = "var" /\ nodes[1].v \in DOMAIN ctx
              THEN CountCR(ctx[nodes[1].v]) ELSE 0)
         + SumCR(Tail(nodes), ctx)

\* The carriage returns held by the context values a file substitutes.
ValueCRs(f) ==
    IF ~f.readable \/ ~Utf8Decodable(f.bytes) THEN 0
    ELSE SumCR(FromString(Env, ReadText(f.bytes)).nodes, Context)

ValueCRsOf == [f \in FileKinds |-> ValueCRs(f)]

IsTemplateText(f) == Utf8Decodable(f.bytes) /\ HasMarkers(f.bytes)

\* C5: a successful run returns rendered_files = the number of UTF-8 files
\* with a marker and copied_files = the number of all other files, so that
\* their sum is the number of files enumerated.
C5_Counting ==
    pc = "done" =>
        /\ result.returned
        /\ result.rendered_files =
               Cardinality({p \in DOMAIN tpl : IsTemplateText(tpl[p])})
        /\ result.copied_files =
               Cardinality({p \in DOMAIN tpl : ~IsTemplateText(tpl[p])})
        /\ result.rendered_files + result.copied_files = Len(files)
        /\ Len(files) = Cardinality(DOMAIN tpl)

\* A successful run of two marker files, a binary file and a marker-free
\* text reports 2 and 1.
C5_Witness ==
    /\ pc = "done"
    /\ result.rendered_files = 2
    /\ result.copied_files = 1
    /\ \E p \in DOMAIN tpl : tpl[p].bytes = BinaryBody

\* The files of S in ascending order of their canonical relative path.
CanonicalOrder(S) ==
    CHOOSE s \in Perms(S) : \A i, j \in 1..Len(s) : i < j => Before(s[i], s[j])

\* What a run over the template t does to the destination files d when no
\* system call on the destination fails, as a function of the tree and the
\* context alone: the files are taken in canonical order, each is put in
\* place whole, and the first file whose effect is an exception ends the run.
RECURSIVE OutcomeFrom(_, _, _, _, _, _)
OutcomeFrom(t, order, i, d, r, c) ==
    IF i > Len(order) THEN
        [ended |-> "done", files |-> d, rendered |-> r, copied |-> c,
         at |-> NoRel, type |-> "none"]
    ELSE
        LET p == order[i]
            eff == EffectOf[t[p]]
        IN  IF eff.kind = "raise" THEN
                [ended |-> "failed", files |-> d, rendered |-> r, copied |-> c,
                 at |-> p, type |-> eff.type]
            ELSE
                OutcomeFrom(t, order, i + 1,
                    [d EXCEPT ![p] = [exists |-> TRUE, bytes |-> eff.payload,
                                      mode |-> t[p].mode]],
                    IF eff.kind = "Rendered" THEN r + 1 ELSE r,
                    IF eff.kind = "Copied" THEN c + 1 ELSE c)

ExpectedOutcome ==
    IF tplKind # "dir" THEN
        [ended |-> "failed", files |-> InitialFiles(dstKind), rendered |-> 0,
         copied |-> 0, at |-> NoRel, type |-> "RenderError"]
    ELSE OutcomeFrom(tpl, CanonicalOrder(DOMAIN tpl), 1, InitialFiles(dstKind), 0, 0)

\* C6: the outcome of a run that no destination system call cut short is a
\* function of the template tree, the context and the destination's former
\* content alone: whatever order the file system listed the directory
\* entries in, the run ends the same way (returns or fails), leaves the same
\* files with the same bytes and permission bits, returns the same
\* RenderResult, and on failure stops at the same file with the same error.
C6_OrderIndependentOutcome ==
    (pc \in {"done", "failed"} /\ err.type # "OSError") =>
        LET e == ExpectedOutcome
        IN  /\ pc = e.ended
            /\ dst = e.files
            /\ err.type = e.type
            /\ pc = "done" =>
                  /\ result.rendered_files = e.rendered
                  /\ result.copied_files = e.copied
            /\ (pc = "failed" /\ tplKind = "dir") => files[idx] = e.at

\* A run failed at the file "b", which sorts last and which os.walk lists
\* before the files of the directory "a": both files of "a" are in place.
C6_Witness ==
    /\ pc = "failed"
    /\ err.type = "RenderError"
    /\ Len(files) = 3
    /\ files[3] = << <<98>> >>
    /\ idx = 3
    /\ dst[<< <<97>>, <<98>> >>].exists
    /\ dst[<< <<97>>, <<99>> >>].exists
    /\ dstKind = "absent"

\* C7 as stated: every failure at a file leaves render_template_dir as a
\* RenderError that states the relative path of that file.
C7_EveryFailureIsRenderError ==
    (pc = "failed" /\ idx >= 1) =>
        /\ err.type = "RenderError"
        /\ err.rel = files[idx]

\* C8: when the template root is missing or not a directory the run fails
\* with a RenderError at its first step: nothing is enumerated, no
\* destination file or directory is created or changed (an absent
\* destination stays absent) and no RenderResult is returned.
C8_InvalidTemplateRoot ==
    tplKind # "dir" =>
        /\ pc \in {"start", "failed"}
        /\ pc = "failed" =>
              /\ err.type = "RenderError"
              /\ err.cause = "InvalidTemplateRoot"
        /\ files = <<>>
        /\ opened = <<>>
        /\ dst = InitialFiles(dstKind)
        /\ dstDirs = InitialDirs(dstKind)
        /\ result = NoResult

\* The run failed on a missing template root and the destination directory
\* still does not exist.
C8_Witness ==
    /\ pc = "failed"
    /\ tplKind = "missing"
    /\ dstKind = "absent"
    /\ dstDirs = {}
    /\ err.type = "RenderError"

\* C9 as stated: at every moment each destination path holds what it held
\* before the run or the complete final bytes of the new file.
C9_NoPartialFileObservable ==
    \A p \in DOMAIN tpl :
        \/ Untouched(p)
        \/ dst[p].exists /\ dst[p].bytes = EffectOf[tpl[p]].payload

\* C10: after a successful run every destination file has the permission
\* bits of its source file, for Rendered and Copied files alike, whatever
\* the umask and whatever the mode of an older file at the path.
C10_PermissionPreservation ==
    pc = "done" =>
        \A p \in DOMAIN tpl : dst[p].exists /\ dst[p].mode = tpl[p].mode

\* A successful run over older files of mode 0o660 left a Rendered and a
\* Copied file with the mode 0o755 of their sources.
C10_Witness ==
    /\ pc = "done"
    /\ dstKind = "populated"
    /\ \E p, q \in DOMAIN outcomes :
          /\ outcomes[p] = "Rendered"
          /\ outcomes[q] = "Copied"
          /\ tpl[p].mode = 493
          /\ tpl[q].mode = 493
          /\ dst[p].mode = 493
          /\ dst[q].mode = 493

\* The leaf files under the template root when a link counts as what it
\* points to: the files, the links to files, the dangling links, and for a
\* link to a directory every file of that directory, under the link's name.
LeafFiles(t, ls) ==
    DOMAIN t
        \cup {l \in DOMAIN ls : ls[l].kind # "dir"}
        \cup UNION {{l \o SubSeq(p, Len(ls[l].target) + 1, Len(p)) :
                        p \in {q \in DOMAIN t :
                                  /\ Len(q) > Len(ls[l].target)
                                  /\ SubSeq(q, 1, Len(ls[l].target)) = ls[l].target}} :
                    l \in {k \in DOMAIN ls : ls[k].kind = "dir"}}

\* C11 as stated: the list _iter_template_files returns is strictly
\* ascending by the canonical relative path (so no path twice) and holds
\* exactly the leaf files under the root, a link counting as what it points
\* to: a link to a file is listed, the files behind a link to a directory
\* are listed, and a dangling link is listed and never completed, so that a
\* run over it does not return.
C11_EnumerationComplete ==
    (tplKind = "dir" /\ pc \notin {"start", "enumerate"}) =>
        /\ \A i, j \in 1..Len(files) : i < j => KeyLess(files[i], files[j])
        /\ {files[i] : i \in 1..Len(files)} = LeafFiles(tpl, links)
        /\ \A l \in DOMAIN links :
              links[l].kind = "broken" => l \notin DOMAIN outcomes /\ pc # "done"

====
